---- MODULE Spec2Model ----
\* Verification model of droste-cv-mcp:
\*   - the in-memory transport (request/response correlator) of inMemoryTransport.js,
\*   - the authenticated backend request helpers of mcp.js and mcp_core.js,
\*     and the exported helper of utils/makeAuthenticatedBackendRequest.js,
\*   - the CallTool handlers of mcp_core.js and of the stdio server, with
\*     validateSetup of mcp_core.js and the credentials handleLogin logs,
\*   - the JSON-RPC endpoint POST / and the REST tool routes of mcp.js.
EXTENDS Integers, Sequences, FiniteSets, TLC

\* ---------------------------------------------------------------------------
\* Bounds
\* ---------------------------------------------------------------------------
\* number of sendRequestToMCP calls explored
MaxReq == 2
\* number of gateway calls explored on one session
MaxCalls == 2
\* number of distinct token values the backend hands out
MaxTok == 2

\* ---------------------------------------------------------------------------
\* Program constants
\* ---------------------------------------------------------------------------
\* JSON-RPC code of the "authentication required" answer of tools/call
AuthRequiredCode == -32000
\* JSON-RPC code of the "tool execution error" answer of tools/call
ToolExecutionCode == -32001

\* ---------------------------------------------------------------------------
\* Values of the transport
\* ---------------------------------------------------------------------------
\* an absent property (undefined)
Absent == -1
\* the number 0 given as an id: present, and falsy
Zero == 0
\* ids a caller puts in its payload; generated ids are 1..MaxReq
SuppliedIds == {101}
\* the id generated for the r-th call: `http-${Date.now()}-${random}`, taken
\* to be fresh for every call
GenId(r) == r
\* the keys pendingRequests can hold
PendIds == SuppliedIds \cup (1..MaxReq)
\* the ids a payload or a message can carry
InIds == SuppliedIds \cup {Zero, Absent}
MsgIds == PendIds \cup {Zero, Absent}

\* the strings an error's message property can hold ("" is falsy)
ErrMessages == {"", "boom"}
\* message.error: absent, or an object {code, message?, data}
NoError == [present |-> FALSE, code |-> Absent, message |-> "", hasMessage |-> FALSE, data |-> Absent]
\* hasMessage FALSE is an error object without a message property
ErrorObjects == { [present |-> TRUE, code |-> 7, message |-> m, hasMessage |-> TRUE, data |-> 9] :
                    m \in ErrMessages }
                \cup { [present |-> TRUE, code |-> 7, message |-> "", hasMessage |-> FALSE, data |-> 9] }
Errors == {NoError} \cup ErrorObjects
\* message.result: absent or a value
Results == {Absent, 55}

\* the bodies of a response: an error, a result, or neither (malformed)
Bodies == [error : ErrorObjects, result : {Absent}] \cup [error : {NoError}, result : Results]
\* the messages sendMessage is called with; isNull is the null/undefined message.
\* A method is read only when the id is falsy, error and result only when the
\* id is truthy: the other combinations are not enumerated.
Messages == { [isNull |-> FALSE, id |-> i, error |-> b.error, result |-> b.result, hasMethod |-> FALSE] :
                 i \in PendIds, b \in Bodies }
            \cup [isNull : {FALSE}, id : {Zero, Absent}, error : {NoError}, result : {Absent}, hasMethod : BOOLEAN]
NullMessage == [isNull |-> TRUE, id |-> Absent, error |-> NoError, result |-> Absent, hasMethod |-> FALSE]

\* the method of a payload that has one
Method == "tools/list"
\* payload.params: absent, or an object of arguments
ParamsIn == {"undefined", "args"}
\* the object literal {}
EmptyObject == "{}"

\* what a promise is settled with
NoValue == [kind |-> "none", id |-> Absent, code |-> Absent, message |-> "", data |-> Absent, result |-> Absent]
NewPromise == [state |-> "pending", value |-> NoValue]
NoPromise == [state |-> "none", value |-> NoValue]

\* what the registered handler does when handed a request
HandlerBehaviours == {"defer", "respond", "throw", "respondThenThrow"}

VARIABLES
    \* --- InMemoryTransport ---
    isStarted,            \* this.isStarted
    serverMessageHandler, \* this.serverMessageHandler: TRUE when a handler is registered
    pendingRequests,      \* this.pendingRequests: id -> index of the call whose {resolve, reject} it holds, 0 when absent
    nreq,                 \* number of sendRequestToMCP calls made
    reqId,                \* messageId of each call
    promise,              \* the promise each call returned
    timer,                \* the setTimeout of each call: "none", "armed", "fired"
    handed,               \* the handler was invoked with the call's request
    invoked,              \* history: number of resolve/reject invocations on each call's promise
    lookedUp,             \* history: number of those made through an entry found in pendingRequests
    delivered,            \* history: a sendMessage carrying the call's id occurred after its registration
    answer,               \* history: the message sendMessage found the call's entry for
    lastSend,             \* what the last sendMessage call let out: the events it emitted, the unknown id it logged
    lastRequest,          \* the fullMcPRequest the handler was last invoked with
    \* --- gateway (mcp.js, mcp_core.js) ---
    session,              \* req.session: accessToken, refreshToken
    calls,                \* the gateway calls: position and history of each
    expired,              \* history: a call failed on 401 + failed refresh and no login succeeded since
    \* --- tool dispatch (mcp_core.js, stdio server) and POST / (mcp.js) ---
    sessionToken,         \* the module-level sessionToken of the stdio server, 0 when null
    tcall,                \* the CallTool invocation: position, inputs, result and the credentials it logged
    setup,                \* validateSetup() of mcp_core.js: "none" before it runs, "checking" during its fetch, then its outcome
    rpc,                  \* the POST / exchange: position, request and response
    rest                  \* the exchange of a REST tool route: position and HTTP status answered

tvars == <<isStarted, serverMessageHandler, pendingRequests, nreq, reqId, promise, timer,
           handed, invoked, lookedUp, delivered, answer, lastSend, lastRequest>>
gvars == <<session, calls, expired>>
dvars == <<sessionToken, tcall, setup, rpc, rest>>
vars == <<isStarted, serverMessageHandler, pendingRequests, nreq, reqId, promise, timer,
          handed, invoked, lookedUp, delivered, answer, lastSend, lastRequest, session, calls, expired,
          sessionToken, tcall, setup, rpc, rest>>

Reqs == 1..MaxReq

\* ---------------------------------------------------------------------------
\* InMemoryTransport
\* ---------------------------------------------------------------------------

\* resolve()/reject() of a promise: only the first invocation takes effect
Settle(p, st, v) == IF p.state = "pending" THEN [state |-> st, value |-> v] ELSE p

\* the Error built from message.error
RpcError(e) ==
    [NoValue EXCEPT !.kind = "rpcError",
                    !.message = IF e.hasMessage /\ e.message # "" THEN e.message ELSE "MCP Server Error",
                    !.code = e.code,
                    !.data = e.data]

\* mutant: resolve(message) whatever the message holds
Resolution_whole(m) == [NoValue EXCEPT !.kind = "wholeMessage", !.id = m.id]

\* the value resolve() is called with
Resolution(m) ==
    IF m.result # Absent
       THEN [NoValue EXCEPT !.kind = "result", !.result = m.result]
       ELSE [NoValue EXCEPT !.kind = "wholeMessage", !.id = m.id]

TimeoutError(id) == [NoValue EXCEPT !.kind = "timeout", !.id = id]
HandlerError == [NoValue EXCEPT !.kind = "handlerError"]
FailFast(k) == [NoValue EXCEPT !.kind = k]

\* a truthy id
Truthy(id) == id # Absent /\ id # Zero

\* the part of the transport sendMessage reads and writes
TState == [pend |-> pendingRequests, prom |-> promise, inv |-> invoked, look |-> lookedUp,
           deliv |-> delivered, ans |-> answer, last |-> lastSend]

\* a sendMessage call that emits no event and logs no unknown id
NoSend == [emitted |-> <<>>, unknownId |-> Absent]

\* mutant: a notification is only logged
Emitted_none(m) == <<>>

\* the 'notification' events sendMessage emits for message m
Emitted(m) == IF ~Truthy(m.id) /\ m.hasMethod THEN <<m>> ELSE <<>>

\* mutant: sendMessage leaves the entry in place
RemoveSettled_kept(pend, id) == pend

\* this.pendingRequests.delete(requestId) of sendMessage
RemoveSettled(pend, id) == [pend EXCEPT ![id] = 0]

\* sendMessage(message), on the transport state t; ids is the messageId of each
\* call and upto the number of calls made (both only feed the history)
SendMessageOn(t, m, ids, upto) ==
    IF m.isNull
       THEN [t EXCEPT !.last = NoSend]
    ELSE LET d == [r \in Reqs |-> IF r <= upto /\ ids[r] = m.id /\ Truthy(m.id) THEN TRUE ELSE t.deliv[r]] IN
    IF Truthy(m.id) /\ m.id \in PendIds /\ t.pend[m.id] # 0
       THEN LET r == t.pend[m.id] IN
            [t EXCEPT !.prom[r] = IF m.error.present
                                     THEN Settle(@, "rejected", RpcError(m.error))
                                     ELSE Settle(@, "resolved", Resolution(m)),
                      !.inv[r] = @ + 1,
                      !.look[r] = @ + 1,
                      !.ans[r] = m,
                      !.pend = RemoveSettled(@, m.id),
                      !.deliv = d,
                      !.last = NoSend]
    ELSE [t EXCEPT !.deliv = d,
                   !.last = [emitted |-> Emitted(m),
                             unknownId |-> IF Truthy(m.id) THEN m.id ELSE Absent]]

\* mutant: start() builds a fresh pendingRequests map on every call
Start_fresh ==
    /\ isStarted' = TRUE
    /\ pendingRequests' = [i \in PendIds |-> 0]
    /\ UNCHANGED <<serverMessageHandler, nreq, reqId, promise, timer,
                   handed, invoked, lookedUp, delivered, answer, lastSend, lastRequest>>
    /\ UNCHANGED <<gvars, dvars>>

\* start(): a call on a started transport only warns and returns
Start ==
    /\ isStarted' = TRUE
    /\ UNCHANGED <<serverMessageHandler, pendingRequests, nreq, reqId, promise, timer,
                   handed, invoked, lookedUp, delivered, answer, lastSend, lastRequest>>
    /\ UNCHANGED <<gvars, dvars>>

\* stop() (disconnect() is stop())
Stop ==
    /\ isStarted' = FALSE
    /\ pendingRequests' = [i \in PendIds |-> 0]
    /\ UNCHANGED <<serverMessageHandler, nreq, reqId, promise, timer,
                   handed, invoked, lookedUp, delivered, answer, lastSend, lastRequest>>
    /\ UNCHANGED <<gvars, dvars>>

\* onMessage(handler)
OnMessage ==
    /\ serverMessageHandler' = TRUE
    /\ UNCHANGED <<isStarted, pendingRequests, nreq, reqId, promise, timer,
                   handed, invoked, lookedUp, delivered, answer, lastSend, lastRequest>>
    /\ UNCHANGED <<gvars, dvars>>

\* sendMessage(message), called by the server at any time
SendMessage(m) ==
    /\ LET t == SendMessageOn(TState, m, reqId, nreq) IN
         /\ pendingRequests' = t.pend
         /\ promise' = t.prom
         /\ invoked' = t.inv
         /\ lookedUp' = t.look
         /\ delivered' = t.deliv
         /\ answer' = t.ans
         /\ lastSend' = t.last
    /\ UNCHANGED <<isStarted, serverMessageHandler, nreq, reqId, timer, handed, lastRequest>>
    /\ UNCHANGED <<gvars, dvars>>

\* no request was handed to the handler yet
NoRequest == [jsonrpc |-> "none", id |-> Absent, method |-> "none", params |-> "none"]

\* mutant: params is copied as the payload has it
ParamsOrEmpty_asGiven(params) == params

\* mcpRequestPayload.params || {}
ParamsOrEmpty(params) == IF params = "undefined" THEN EmptyObject ELSE params

\* mcpRequestPayload.id || `http-${Date.now()}-${random}`
MessageId(idIn, r) == IF Truthy(idIn) THEN idIn ELSE GenId(r)

\* the fullMcPRequest built for the r-th call
FullMcPRequest(idIn, params, r) ==
    [jsonrpc |-> "2.0", id |-> MessageId(idIn, r), method |-> Method, params |-> ParamsOrEmpty(params)]

\* the catch block around the handler invocation
HandlerThrew(t, r, id) ==
    [t EXCEPT !.pend[id] = 0,
              !.prom[r] = Settle(@, "rejected", HandlerError),
              !.inv[r] = @ + 1]

\* mutant: the check of the registered handler is missing
FailFastKind_noHandlerCheck(hasMethod) ==
    IF ~isStarted THEN "notStarted"
    ELSE IF ~hasMethod THEN "noMethod"
    ELSE ""

\* the three early returns of sendRequestToMCP; "" when the request goes on
FailFastKind(hasMethod) ==
    IF ~isStarted THEN "notStarted"
    ELSE IF ~serverMessageHandler THEN "noHandler"
    ELSE IF ~hasMethod THEN "noMethod"
    ELSE ""

\* mutant: the entry is stored only after the handler has returned
Registered_late(t, id, r) == [t EXCEPT !.prom[r] = NewPromise]

\* this.pendingRequests.set(messageId, { resolve, reject }) in the executor of
\* the promise of call r
Registered(t, id, r) == [t EXCEPT !.pend[id] = r, !.prom[r] = NewPromise]

\* sendRequestToMCP(payload): payload.id is idIn, payload.method is present
\* when hasMethod, payload.params is params; the handler behaves as h and,
\* when it answers within its invocation, calls sendMessage with error e and
\* result res
SendRequestToMCP(idIn, hasMethod, params, h, e, res) ==
    /\ nreq < MaxReq
    /\ LET r == nreq + 1
           k == FailFastKind(hasMethod)
       IN
       /\ nreq' = r
       /\ IF k # ""
             THEN /\ promise' = [promise EXCEPT ![r] = [state |-> "rejected", value |-> FailFast(k)]]
                  /\ UNCHANGED <<pendingRequests, reqId, timer, handed, invoked, lookedUp, delivered, answer, lastSend, lastRequest>>
             ELSE LET fullMcPRequest == FullMcPRequest(idIn, params, r)
                      messageId == fullMcPRequest.id
                      ids == [reqId EXCEPT ![r] = messageId]
                      t0 == Registered(TState, messageId, r)
                      m == [isNull |-> FALSE, id |-> messageId, error |-> e, result |-> res, hasMethod |-> FALSE]
                      t1 == IF h \in {"respond", "respondThenThrow"}
                               THEN SendMessageOn(t0, m, ids, r) ELSE t0
                      t2 == IF h \in {"throw", "respondThenThrow"}
                               THEN HandlerThrew(t1, r, messageId) ELSE t1
                  IN
                  /\ reqId' = ids
                  /\ handed' = [handed EXCEPT ![r] = TRUE]
                  /\ lastRequest' = fullMcPRequest
                  /\ pendingRequests' = t2.pend
                  /\ promise' = t2.prom
                  /\ invoked' = t2.inv
                  /\ lookedUp' = t2.look
                  /\ delivered' = t2.deliv
                  /\ answer' = t2.ans
                  /\ lastSend' = t2.last
                  /\ timer' = [timer EXCEPT ![r] = "armed"]
    /\ UNCHANGED <<isStarted, serverMessageHandler>>
    /\ UNCHANGED <<gvars, dvars>>

\* the setTimeout callback of call r; timers of equal delay fire in the order
\* they were set
TimerFire(r) ==
    /\ timer[r] = "armed"
    /\ \A q \in Reqs : q < r => timer[q] # "armed"
    /\ timer' = [timer EXCEPT ![r] = "fired"]
    /\ LET id == reqId[r] IN
       IF pendingRequests[id] # 0
          THEN LET q == pendingRequests[id] IN
               /\ pendingRequests' = [pendingRequests EXCEPT ![id] = 0]
               /\ promise' = [promise EXCEPT ![q] = Settle(@, "rejected", TimeoutError(id))]
               /\ invoked' = [invoked EXCEPT ![q] = @ + 1]
               /\ lookedUp' = [lookedUp EXCEPT ![q] = @ + 1]
          ELSE UNCHANGED <<pendingRequests, promise, invoked, lookedUp>>
    /\ UNCHANGED <<isStarted, serverMessageHandler, nreq, reqId, handed, delivered, answer, lastSend, lastRequest>>
    /\ UNCHANGED <<gvars, dvars>>

InitTransport ==
    /\ isStarted = FALSE
    /\ serverMessageHandler = FALSE
    /\ pendingRequests = [i \in PendIds |-> 0]
    /\ nreq = 0
    /\ reqId = [r \in Reqs |-> Absent]
    /\ promise = [r \in Reqs |-> NoPromise]
    /\ timer = [r \in Reqs |-> "none"]
    /\ handed = [r \in Reqs |-> FALSE]
    /\ invoked = [r \in Reqs |-> 0]
    /\ lookedUp = [r \in Reqs |-> 0]
    /\ delivered = [r \in Reqs |-> FALSE]
    /\ answer = [r \in Reqs |-> NullMessage]
    /\ lastSend = NoSend
    /\ lastRequest = NoRequest

\* ---------------------------------------------------------------------------
\* Backend request gateway: makeAuthenticatedBackendRequest (mcp.js) and
\* makeAuthenticatedRequest (mcp_core.js)
\* ---------------------------------------------------------------------------
Calls == 1..MaxCalls

\* a fetch that rejects (network failure) has status NetFail
NetFail == 0
\* statuses the backend answers with
Statuses == {200, 401, 500}
StaticStatuses == {200, 401, 403, 500}

\* how a call ends: a Response handed back, an Error thrown, or an answer
\* sent by the gate in front of the call
NoResult == [kind |-> "none", status |-> 0, err |-> ""]
Response(st) == [kind |-> "response", status |-> st, err |-> ""]
Thrown(e) == [kind |-> "throw", status |-> 0, err |-> e]
HttpAnswer(st) == [kind |-> "http", status |-> st, err |-> ""]
RpcErrorAnswer(code) == [kind |-> "rpcError", status |-> code, err |-> ""]

\* a call: its position (pc), the gateway it goes through ("session" for
\* mcp.js, "static" for mcp_core.js, "util" for the exported helper of
\* utils/makeAuthenticatedBackendRequest.js), and its history: requests sent
\* to the original endpoint, refresh requests sent, status of the first
\* response, outcome of the refresh, tokens of the refresh body (until they
\* are stored), token carried by the retry (while it is in flight), final
\* result, whether the path is the login endpoint, and the token of the
\* Authorization header of the first request (while it is in flight, 0 when
\* the request has no such header)
IdleCall == [pc |-> "idle", kind |-> "none", requests |-> 0, refreshes |-> 0,
             first |-> -1, refresh |-> "none", newTok |-> 0, newRefresh |-> 0,
             tokRetry |-> 0, result |-> NoResult, login |-> FALSE, tokFirst |-> 0]

\* the token values of the backend; 0 is no token
Tokens == 1..MaxTok
\* the value of process.env.DROSTE_CV_API_KEY when it is set
ApiKey == 99

\* the headers of the refresh request
RefreshHeaders == {"Content-Type"}

\* the ways a gateway call is entered: a REST tool route behind
\* ensureAuthenticated, tools/call of POST /, and a per-CV field fetch of
\* cv-overview, which calls makeAuthenticatedBackendRequest on the shared req
Entries == {"rest", "rpc", "field"}

\* mutant: the access token is not looked at
HasAccessToken_always(s) == TRUE

\* req.session && req.session.accessToken
HasAccessToken(s) == s.accessToken # 0

\* what stops a call before makeAuthenticatedBackendRequest issues a fetch
GateAnswer(entry, s) ==
    IF HasAccessToken(s) THEN NoResult
    ELSE IF entry = "rest" THEN HttpAnswer(401)
    ELSE IF entry = "rpc" THEN RpcErrorAnswer(AuthRequiredCode)
    ELSE Thrown("MCP user not authenticated")

\* mutant: any response that is not ok starts a refresh
ShouldRefresh_anyError(status, s) == status # 200 /\ s.refreshToken # 0

\* response.status === 401 && req.session.refreshToken
ShouldRefresh(status, s) == status = 401 /\ s.refreshToken # 0

\* the refresh outcomes after which the original request is sent again
RefreshAllowsRetry(out) == out = "ok"

\* the refresh outcomes after which the stored tokens are deleted
RefreshClearsTokens(out) == out = "non2xx"

\* mutant: the refreshed access token is not stored
StoreRefreshed_onlyRefreshToken(s, tok, rtok) ==
    [accessToken |-> s.accessToken, refreshToken |-> IF rtok # 0 THEN rtok ELSE s.refreshToken]

\* the session after a successful refresh stored the tokens of its body
StoreRefreshed(s, tok, rtok) ==
    [accessToken |-> tok, refreshToken |-> IF rtok # 0 THEN rtok ELSE s.refreshToken]

\* the refresh call did not produce tokens
RefreshFailures == {"non2xx", "badBody", "netfail"}

\* POST /mcp/auth/login, from the backend's answer on: tok is the token the
\* answer carries, withRefresh tells whether it carries a refreshToken too
Login(ok, tok, withRefresh) ==
    /\ IF ok
          THEN /\ session' = [accessToken |-> tok,
                              refreshToken |-> IF withRefresh THEN tok ELSE 0]
               /\ expired' = FALSE
          ELSE UNCHANGED <<session, expired>>
    /\ UNCHANGED calls
    /\ UNCHANGED <<tvars, dvars>>

\* POST /mcp/auth/logout
Logout ==
    /\ session' = [accessToken |-> 0, refreshToken |-> 0]
    /\ UNCHANGED <<calls, expired>>
    /\ UNCHANGED <<tvars, dvars>>

\* a call arrives: the gate, then the first attempt of
\* makeAuthenticatedBackendRequest
CallStart(c, entry) ==
    /\ calls[c].pc = "idle"
    /\ \A d \in Calls : d < c => calls[d].pc # "idle"
    /\ LET g == GateAnswer(entry, session) IN
       IF g # NoResult
          THEN calls' = [calls EXCEPT ![c] = [@ EXCEPT !.pc = "done", !.kind = "session",
                                                        !.result = g]]
          ELSE calls' = [calls EXCEPT ![c] = [@ EXCEPT !.pc = "wait1", !.kind = "session",
                                                        !.requests = 1,
                                                        !.tokFirst = session.accessToken]]
    /\ UNCHANGED <<session, expired>>
    /\ UNCHANGED <<tvars, dvars>>

\* the first attempt settles
FirstResponse(c, status) ==
    /\ calls[c].pc = "wait1"
    /\ IF status = NetFail
          THEN calls' = [calls EXCEPT ![c] = [@ EXCEPT !.pc = "done", !.first = status,
                                                        !.tokFirst = 0,
                                                        !.result = Thrown("network")]]
       ELSE IF ShouldRefresh(status, session)
          THEN calls' = [calls EXCEPT ![c] = [@ EXCEPT !.pc = "waitRefresh", !.first = status,
                                                        !.tokFirst = 0,
                                                        !.refreshes = @ + 1]]
          ELSE calls' = [calls EXCEPT ![c] = [@ EXCEPT !.pc = "done", !.first = status,
                                                        !.tokFirst = 0,
                                                        !.result = Response(status)]]
    /\ UNCHANGED <<session, expired>>
    /\ UNCHANGED <<tvars, dvars>>

\* the fetch of /api/auth/refresh settles; out is what the backend did, and
\* for "ok" tok is the accessToken of the body and withRefresh tells whether
\* the body carries a new refreshToken
RefreshResponse(c, out, tok, withRefresh) ==
    /\ calls[c].pc = "waitRefresh"
    /\ IF out = "netfail"
          THEN /\ calls' = [calls EXCEPT ![c] = [@ EXCEPT !.pc = "done", !.refresh = out,
                                                           !.result = Thrown("network")]]
               /\ expired' = TRUE
       ELSE IF out = "ok"
          THEN /\ calls' = [calls EXCEPT ![c] = [@ EXCEPT !.pc = "parseRefresh", !.refresh = out,
                                                           !.newTok = tok,
                                                           !.newRefresh = IF withRefresh THEN tok ELSE 0]]
               /\ UNCHANGED expired
          ELSE /\ calls' = [calls EXCEPT ![c] = [@ EXCEPT !.pc = "parseRefresh", !.refresh = out]]
               /\ UNCHANGED expired
    /\ UNCHANGED session
    /\ UNCHANGED <<tvars, dvars>>

\* refreshResponse.json() settles: the rest of the refresh branch, up to the
\* retry being sent
RefreshParsed(c) ==
    /\ calls[c].pc = "parseRefresh"
    /\ LET out == calls[c].refresh IN
       IF out = "badBody"
          THEN /\ calls' = [calls EXCEPT ![c] = [@ EXCEPT !.pc = "done", !.result = Thrown("parse")]]
               /\ expired' = TRUE
               /\ UNCHANGED session
       ELSE IF ~RefreshAllowsRetry(out)
          THEN /\ session' = IF RefreshClearsTokens(out)
                                THEN [accessToken |-> 0, refreshToken |-> 0]
                                ELSE session
               /\ calls' = [calls EXCEPT ![c] = [@ EXCEPT !.pc = "done",
                                                           !.result = Thrown("Backend token refresh failed")]]
               /\ expired' = TRUE
          ELSE /\ session' = StoreRefreshed(session, calls[c].newTok, calls[c].newRefresh)
               /\ calls' = [calls EXCEPT ![c] = [@ EXCEPT !.pc = "waitRetry",
                                                           !.requests = @ + 1,
                                                           !.newTok = 0, !.newRefresh = 0,
                                                           !.tokRetry = session'.accessToken]]
               /\ UNCHANGED expired
    /\ UNCHANGED <<tvars, dvars>>

\* the retried request settles
RetryResponse(c, status) ==
    /\ calls[c].pc = "waitRetry"
    /\ calls' = [calls EXCEPT ![c] = [@ EXCEPT !.pc = "done", !.tokRetry = 0,
                                                !.result = IF status = NetFail
                                                              THEN Thrown("network")
                                                              ELSE Response(status)]]
    /\ UNCHANGED <<session, expired>>
    /\ UNCHANGED <<tvars, dvars>>

\* makeAuthenticatedRequest of mcp_core.js up to its fetch; apiKey tells
\* whether getApiKey() finds process.env.DROSTE_CV_API_KEY set
StaticStart(c, apiKey) ==
    /\ calls[c].pc = "idle"
    /\ \A d \in Calls : d < c => calls[d].pc # "idle"
    /\ IF ~apiKey
          THEN calls' = [calls EXCEPT ![c] = [@ EXCEPT !.pc = "done", !.kind = "static",
                                                        !.result = Thrown("CV_API_KEY environment variable not set")]]
          ELSE calls' = [calls EXCEPT ![c] = [@ EXCEPT !.pc = "waitStatic", !.kind = "static",
                                                        !.requests = 1, !.tokFirst = ApiKey]]
    /\ UNCHANGED <<session, expired>>
    /\ UNCHANGED <<tvars, dvars>>

\* the error makeAuthenticatedRequest throws for a response that is not ok
StaticFailure(status) ==
    IF status = 401 THEN Thrown("API key is invalid or expired")
    ELSE IF status = 403 THEN Thrown("Insufficient permissions")
    ELSE Thrown("Request failed")

\* the fetch of makeAuthenticatedRequest settles
StaticResponse(c, status) ==
    /\ calls[c].pc = "waitStatic"
    /\ calls' = [calls EXCEPT ![c] = [@ EXCEPT !.pc = "done", !.first = status, !.tokFirst = 0,
                                                !.result = IF status = NetFail THEN Thrown("network")
                                                           ELSE IF status = 200 THEN Response(status)
                                                           ELSE StaticFailure(status)]]
    /\ UNCHANGED <<session, expired>>
    /\ UNCHANGED <<tvars, dvars>>

\* the token of the Authorization header the exported helper attaches: the
\* header is set only when the session holds an accessToken
UtilBearer(s) == IF HasAccessToken(s) THEN s.accessToken ELSE 0

\* makeAuthenticatedBackendRequest of utils/makeAuthenticatedBackendRequest.js
\* up to its fetch; login tells whether apiPath is the login endpoint
UtilStart(c, login) ==
    /\ calls[c].pc = "idle"
    /\ \A d \in Calls : d < c => calls[d].pc # "idle"
    /\ calls' = [calls EXCEPT ![c] = [@ EXCEPT !.pc = "waitUtil", !.kind = "util",
                                                !.login = login, !.requests = 1,
                                                !.tokFirst = UtilBearer(session)]]
    /\ UNCHANGED <<session, expired>>
    /\ UNCHANGED <<tvars, dvars>>

\* the fetch of that helper settles: the Response is handed back as it is
UtilResponse(c, status) ==
    /\ calls[c].pc = "waitUtil"
    /\ calls' = [calls EXCEPT ![c] = [@ EXCEPT !.pc = "done", !.first = status, !.tokFirst = 0,
                                                !.result = IF status = NetFail
                                                              THEN Thrown("Network error communicating with backend API")
                                                              ELSE Response(status)]]
    /\ UNCHANGED <<session, expired>>
    /\ UNCHANGED <<tvars, dvars>>

InitGateway ==
    /\ session = [accessToken |-> 0, refreshToken |-> 0]
    /\ calls = [c \in Calls |-> IdleCall]
    /\ expired = FALSE

NextGateway ==
    \/ \E ok \in BOOLEAN, tok \in Tokens, withRefresh \in BOOLEAN : Login(ok, tok, withRefresh)
    \/ Logout
    \/ \E c \in Calls, entry \in Entries : CallStart(c, entry)
    \/ \E c \in Calls, status \in Statuses \cup {NetFail} : FirstResponse(c, status)
    \/ \E c \in Calls, out \in {"ok", "non2xx", "badBody", "netfail"}, tok \in Tokens, withRefresh \in BOOLEAN :
          RefreshResponse(c, out, tok, withRefresh)
    \/ \E c \in Calls : RefreshParsed(c)
    \/ \E c \in Calls, status \in Statuses \cup {NetFail} : RetryResponse(c, status)
    \/ \E c \in Calls, apiKey \in BOOLEAN : StaticStart(c, apiKey)
    \/ \E c \in Calls, status \in StaticStatuses \cup {NetFail} : StaticResponse(c, status)

\* the three gateways together: those of mcp.js and mcp_core.js, and the
\* exported helper
NextBackend ==
    \/ NextGateway
    \/ \E c \in Calls, login \in BOOLEAN : UtilStart(c, login)
    \/ \E c \in Calls, status \in Statuses \cup {NetFail} : UtilResponse(c, status)

\* ---------------------------------------------------------------------------
\* Tool dispatch: the CallToolRequestSchema handlers of mcp_core.js (static
\* API key) and of the stdio server (module-level sessionToken). The handler
\* runs up to its fetch in one step and from the settled fetch to its return
\* in another; what one invocation reads of the shared sessionToken it reads
\* in its first step, so invocations are taken one after the other.
\* ---------------------------------------------------------------------------
Variants == {"core", "stdio"}

\* the names in APP_TOOLS of mcp_core.js
CoreTools == {"getCvOverview", "getCvFields", "getFieldVersions", "getMedia", "searchCvs",
              "triggerBackendAction", "testTool"}
\* the names in APP_TOOLS of the stdio server
StdioTools == {"loginToMcp", "getCvOverview", "triggerBackendAction"}
Catalog(v) == IF v = "core" THEN CoreTools ELSE StdioTools
\* the names a call carries; "nope" is in neither catalog
ToolNames == CoreTools \cup StdioTools \cup {"nope"}

\* inputSchema.required of each tool
Required(name) ==
    CASE name = "loginToMcp" -> {"email", "password"}
      [] name = "getCvFields" -> {"cvId"}
      [] name = "getFieldVersions" -> {"fieldId"}
      [] name = "getMedia" -> {"key"}
      [] name = "searchCvs" -> {"query"}
      [] name = "triggerBackendAction" -> {"actionName"}
      [] OTHER -> {}

\* request.params.arguments: undefined, or an object holding the fields of
\* given, each with a truthy value; the values of the fields of mistyped are
\* not of the type the inputSchema declares (a number or an object for a
\* string)
NoArgs == [defined |-> FALSE, given |-> {}, mistyped |-> {}]
ArgsOf(name) ==
    {NoArgs} \cup
    UNION { { [defined |-> TRUE, given |-> g, mistyped |-> t] : t \in SUBSET (g \cap Required(name)) } :
              g \in SUBSET (Required(name) \cup (IF name = "testTool" THEN {"message"} ELSE {})) }

\* the JSON bodies a 2xx answer carries; Unparseable makes response.json() reject
Payloads == {"p1", "p2"}
Unparseable == "not json"

\* JSON.stringify(j, null, 2): texts and JSON values are sequences of pieces
Pretty(j) == <<"JSON.stringify(">> \o j \o <<", null, 2)">>

\* how a CallTool invocation ends: a ToolResult returned, or an error thrown
\* to the protocol layer
NoToolResult == [kind |-> "none", isError |-> FALSE, text |-> <<>>]
ToolOk(text) == [kind |-> "toolResult", isError |-> FALSE, text |-> text]

\* mutant: the handler has no catch block
ToolError_escapes(msg) == [kind |-> "protocolError", isError |-> FALSE, text |-> msg]

\* the catch block of the CallTool handler, msg being error.message
ToolError(msg) == [kind |-> "toolResult", isError |-> TRUE, text |-> <<"Error: ">> \o msg]

\* mutant: the default branch does not say which tool
UnknownTool_unnamed(name) == <<"Unknown tool">>

\* the message of the error thrown by the default branch of the switch
UnknownTool(name) == <<"Unknown tool: ", name>>

\* the message of a TypeError raised by reading a property of undefined args
TypeErrorMessage == <<"TypeError">>

\* the prefix a handler's own catch block puts before error.message
FailPrefix(name) ==
    CASE name = "loginToMcp" -> "Login failed: "
      [] name = "getCvOverview" -> "Failed to get CV overview: "
      [] name = "getCvFields" -> "Failed to get CV fields: "
      [] name = "getFieldVersions" -> "Failed to get field versions: "
      [] name = "getMedia" -> "Failed to get media: "
      [] name = "searchCvs" -> "Search failed: "
      [] OTHER -> "Failed to trigger action: "

\* the message thrown by a handler of mcp_core.js before it asks for a
\* request; <<>> when it goes on
CoreEarlyThrow(name, args) ==
    CASE name = "getCvOverview" -> <<>>
      [] name \in {"getCvFields", "getFieldVersions", "triggerBackendAction"} ->
            IF ~args.defined THEN TypeErrorMessage
            ELSE IF ~(Required(name) \subseteq args.given)
               THEN <<CHOOSE f \in Required(name) : TRUE, " is required">>
            ELSE <<>>
      [] name \in {"getMedia", "searchCvs"} ->
            IF ~args.defined THEN <<FailPrefix(name)>> \o TypeErrorMessage
            ELSE IF ~(Required(name) \subseteq args.given)
               THEN <<FailPrefix(name), "Missing required parameter: ", CHOOSE f \in Required(name) : TRUE>>
            ELSE <<>>
      [] name = "testTool" -> IF ~args.defined THEN TypeErrorMessage ELSE <<>>
      [] OTHER -> UnknownTool(name)

\* the text a handler of mcp_core.js returns for the parsed body p
CoreSuccessText(name, p) ==
    CASE name = "getCvOverview" -> Pretty(<<"{ data: ", p, " }">>)
      [] name = "getMedia" -> <<p, ".url">>
      [] name = "searchCvs" -> Pretty(<<"formattedResults(", p, ")">>)
      [] name = "triggerBackendAction" ->
            <<"Action '", "actionName", "' completed successfully:\n">> \o Pretty(<<p>>)
      [] OTHER -> Pretty(<<p>>)

\* a CallTool invocation: position, inputs, number of backend requests sent,
\* status and body of the backend's answer, what the handler returned, and
\* the credentials whose values it wrote to the log
IdleToolCall == [pc |-> "idle", variant |-> "none", name |-> "none", args |-> NoArgs,
                 fetches |-> 0, status |-> -1, payload |-> "none", result |-> NoToolResult,
                 logged |-> {}]

\* mutant: the catch block of validateSetup ends the process
SetupFailed_exit == "exited"

\* the catch block of validateSetup: two lines are logged, nothing is thrown
\* on and the process goes on
SetupFailed == "failed"

\* requests are handled while the process of mcp_core.js lives
ServerRunning == setup # "exited"

\* validateSetup(), called once after server.connect, up to the fetch of
\* makeAuthenticatedRequest; apiKey tells whether DROSTE_CV_API_KEY is set
ValidateSetup(apiKey) ==
    /\ setup = "none"
    /\ setup' = IF apiKey THEN "checking" ELSE SetupFailed
    /\ UNCHANGED <<sessionToken, tcall, rpc, rest>>
    /\ UNCHANGED <<tvars, gvars>>

\* validateSetup() from the settled fetch on
ValidateSetupDone(status) ==
    /\ setup = "checking"
    /\ setup' = IF status = 200 THEN "passed" ELSE SetupFailed
    /\ UNCHANGED <<sessionToken, tcall, rpc, rest>>
    /\ UNCHANGED <<tvars, gvars>>

\* the CallTool handler of mcp_core.js, up to the fetch of
\* makeAuthenticatedRequest; apiKey tells whether DROSTE_CV_API_KEY is set
CoreCallTool(name, args, apiKey) ==
    /\ ServerRunning
    /\ tcall.pc # "fetch"
    /\ LET early == CoreEarlyThrow(name, args)
           begun == [IdleToolCall EXCEPT !.variant = "core", !.name = name, !.args = args]
       IN
       tcall' = IF early # <<>>
                   THEN [begun EXCEPT !.pc = "done", !.result = ToolError(early)]
                ELSE IF name = "testTool"
                   THEN [begun EXCEPT !.pc = "done",
                                      !.result = ToolOk(<<IF "message" \in args.given
                                                             THEN "args.message" ELSE "Test successful!">>)]
                ELSE IF ~apiKey
                   THEN [begun EXCEPT !.pc = "done",
                                      !.result = ToolError(<<FailPrefix(name),
                                                             "CV_API_KEY environment variable not set">>)]
                ELSE [begun EXCEPT !.pc = "fetch", !.fetches = 1]
    /\ UNCHANGED <<sessionToken, setup, rpc, rest>>
    /\ UNCHANGED <<tvars, gvars>>

\* the CallTool handler of mcp_core.js from the settled fetch on; p is the
\* body of a 200
CoreFetchDone(status, p) ==
    /\ ServerRunning
    /\ tcall.pc = "fetch"
    /\ tcall.variant = "core"
    /\ LET name == tcall.name
           res == IF status = NetFail THEN ToolError(<<FailPrefix(name), "network">>)
                  ELSE IF status # 200 THEN ToolError(<<FailPrefix(name), StaticFailure(status).err>>)
                  ELSE IF p = Unparseable THEN ToolError(<<FailPrefix(name), "parse">>)
                  ELSE ToolOk(CoreSuccessText(name, p))
       IN
       tcall' = [tcall EXCEPT !.pc = "done", !.status = status,
                              !.payload = IF status = 200 THEN p ELSE "none",
                              !.result = res]
    /\ UNCHANGED <<sessionToken, setup, rpc, rest>>
    /\ UNCHANGED <<tvars, gvars>>

\* the message thrown by a handler of the stdio server before its fetch;
\* <<>> when it goes on. tok is sessionToken
StdioEarlyThrow(name, args, tok) ==
    CASE name = "loginToMcp" ->
            IF ~args.defined THEN TypeErrorMessage
            ELSE IF ~({"email", "password"} \subseteq args.given)
               THEN <<"Missing ", "email", " or ", "password">>
            ELSE <<>>
      [] name = "getCvOverview" ->
            IF tok = 0 THEN <<"Please login first using the loginToMcp tool">> ELSE <<>>
      [] name = "triggerBackendAction" ->
            IF tok = 0 THEN <<"Please login first using the loginToMcp tool">>
            ELSE IF ~args.defined THEN TypeErrorMessage
            ELSE IF "actionName" \notin args.given THEN <<"actionName", " is required">>
            ELSE <<>>
      [] OTHER -> UnknownTool(name)

\* the text a handler of the stdio server returns for the parsed body p
StdioSuccessText(name, p) ==
    CASE name = "loginToMcp" -> <<"Login successful! Welcome ", "displayName", ".">>
      [] name = "triggerBackendAction" ->
            <<"Action '", "actionName", "' completed successfully:\n">> \o Pretty(<<p>>)
      [] OTHER -> Pretty(<<p>>)

\* the credentials handleLogin writes to the log before its fetch: the
\* password itself, and again within the request body
LoginLogs == {"password"}

\* the credentials handleLogin writes to the log with the parsed body of a
\* 200; tok is the accessToken of the body, 0 when it has none
LoginAnswerLogs(tok) == IF tok # 0 THEN {"accessToken"} ELSE {}

\* the CallTool handler of the stdio server, up to its fetch
StdioCallTool(name, args) ==
    /\ tcall.pc # "fetch"
    /\ LET early == StdioEarlyThrow(name, args, sessionToken)
           begun == [IdleToolCall EXCEPT !.variant = "stdio", !.name = name, !.args = args]
       IN
       tcall' = IF early # <<>>
                   THEN [begun EXCEPT !.pc = "done", !.result = ToolError(early)]
                   ELSE [begun EXCEPT !.pc = "fetch", !.fetches = 1,
                                      !.logged = IF name = "loginToMcp" THEN LoginLogs ELSE {}]
    /\ UNCHANGED <<sessionToken, setup, rpc, rest>>
    /\ UNCHANGED <<tvars, gvars>>

\* the message a handler of the stdio server throws for an answer that is
\* not ok
StdioFailure(name, status) ==
    IF name = "loginToMcp" THEN <<"Backend login failed: ", "errorData">>
    ELSE IF status = 401 THEN <<"Authentication expired. Please login again.">>
    ELSE IF name = "getCvOverview" THEN <<"Failed to fetch CV overview: ", "statusText">>
    ELSE <<"Action failed: ", "statusText">>

\* the CallTool handler of the stdio server from the settled fetch on; p is
\* the body of a 200 and tok the accessToken of a login body (0 when it has
\* none)
StdioFetchDone(status, p, tok) ==
    /\ tcall.pc = "fetch"
    /\ tcall.variant = "stdio"
    /\ LET name == tcall.name
           res == IF status = NetFail THEN ToolError(<<FailPrefix(name), "network">>)
                  ELSE IF status # 200 THEN ToolError(<<FailPrefix(name)>> \o StdioFailure(name, status))
                  ELSE IF p = Unparseable THEN ToolError(<<FailPrefix(name), "parse">>)
                  ELSE ToolOk(StdioSuccessText(name, p))
       IN
       /\ tcall' = [tcall EXCEPT !.pc = "done", !.status = status,
                                 !.payload = IF status = 200 THEN p ELSE "none",
                                 !.result = res,
                                 !.logged = IF name = "loginToMcp" /\ status = 200 /\ p # Unparseable
                                               THEN @ \cup LoginAnswerLogs(tok) ELSE @]
       /\ sessionToken' = IF name = "loginToMcp" /\ status = 200 /\ p # Unparseable THEN tok
                          ELSE IF name # "loginToMcp" /\ status = 401 THEN 0
                          ELSE sessionToken
    /\ UNCHANGED <<setup, rpc, rest>>
    /\ UNCHANGED <<tvars, gvars>>

InitTools ==
    /\ sessionToken = 0
    /\ tcall = IdleToolCall
    /\ setup = "none"

NextTools ==
    \/ \E apiKey \in BOOLEAN : ValidateSetup(apiKey)
    \/ \E status \in StaticStatuses \cup {NetFail} : ValidateSetupDone(status)
    \/ \E name \in ToolNames, apiKey \in BOOLEAN : \E args \in ArgsOf(name) : CoreCallTool(name, args, apiKey)
    \/ \E status \in StaticStatuses \cup {NetFail}, p \in Payloads \cup {Unparseable} : CoreFetchDone(status, p)
    \/ \E name \in ToolNames : \E args \in ArgsOf(name) : StdioCallTool(name, args)
    \/ \E status \in StaticStatuses \cup {NetFail}, p \in Payloads \cup {Unparseable}, tok \in Tokens \cup {0} :
          StdioFetchDone(status, p, tok)

\* ---------------------------------------------------------------------------
\* POST / of mcp.js: the JSON-RPC endpoint
\* ---------------------------------------------------------------------------
\* the id of a request body: no id property, null, or a value (0 is a value)
NoId == "undefined"
NullId == "null"
RpcIds == {NoId, NullId, "0", "abc"}
\* "resources/list" stands for the methods the endpoint does not implement
RpcMethods == {"initialize", "tools/list", "notifications/initialized", "tools/call", "resources/list"}
\* params.tool_id; NoId when params or a string tool_id is missing
ToolIds == {NoId, "cv_overview_tool_v1", "getCvOverview", "trigger_action_tool_v1",
            "triggerBackendAction", "nope"}
\* the tool ids tools/call dispatches on
KnownToolIds == {"cv_overview_tool_v1", "getCvOverview", "trigger_action_tool_v1", "triggerBackendAction"}

\* the request bodies; wellFormed is jsonrpc === "2.0" with a string method
RpcRequests == { q \in [wellFormed : BOOLEAN, id : RpcIds, method : RpcMethods, toolId : ToolIds] :
                    (~q.wellFormed \/ q.method # "tools/call") => q.toolId = NoId }

\* JSON-RPC codes of the endpoint
InvalidRequestCode == -32600
MethodNotFoundCode == -32601
InvalidParamsCode == -32602

\* what the endpoint sends: nothing yet, a JSON-RPC response object with
\* HTTP 200, or HTTP 204 without a body
\* (code is error.code, 0 without error member; outputs is the result member,
\* "none" without it)
NoResponse == [sent |-> "none", http |-> 0, jsonrpc |-> "none", id |-> NoId, kind |-> "none",
               code |-> 0, outputs |-> "none"]
JsonResult(id, out) == [sent |-> "json", http |-> 200, jsonrpc |-> "2.0", id |-> id, kind |-> "result",
                        code |-> 0, outputs |-> out]
JsonError(id, code) == [sent |-> "json", http |-> 200, jsonrpc |-> "2.0", id |-> id, kind |-> "error",
                        code |-> code, outputs |-> "none"]
NoContent == [sent |-> "empty", http |-> 204, jsonrpc |-> "none", id |-> NoId, kind |-> "none",
              code |-> 0, outputs |-> "none"]

\* sends counts the calls of res.json()/res.send() for the request
IdleRpc == [pc |-> "idle",
            request |-> [wellFormed |-> FALSE, id |-> NoId, method |-> "initialize", toolId |-> NoId],
            response |-> NoResponse, sends |-> 0]

\* mutant: the id is echoed as it was read
rpcId_asRead(id) == id

\* typeof clientRpcRequest.id !== 'undefined' ? clientRpcRequest.id : null
rpcId(id) == IF id = NoId THEN NullId ELSE id

\* the handler of POST /, up to the backend request of a tool or to its end
PostRoot(q) ==
    /\ rpc.pc # "tool"
    /\ LET id == rpcId(q.id)
           answer1 == IF ~q.wellFormed THEN JsonError(id, InvalidRequestCode)
                      ELSE IF q.method = "initialize" THEN JsonResult(id, "initialize")
                      ELSE IF q.method = "tools/list" THEN JsonResult(id, "tools")
                      ELSE IF q.method = "notifications/initialized"
                         THEN IF id = NullId THEN NoContent ELSE JsonError(id, InvalidRequestCode)
                      ELSE IF q.method = "tools/call"
                         THEN IF q.toolId = NoId THEN JsonError(id, InvalidParamsCode)
                              ELSE IF ~HasAccessToken(session) THEN JsonError(id, AuthRequiredCode)
                              ELSE IF q.toolId \in KnownToolIds THEN NoResponse
                              ELSE JsonError(id, MethodNotFoundCode)
                      ELSE JsonError(id, MethodNotFoundCode)
       IN
       rpc' = [pc |-> IF answer1 = NoResponse THEN "tool" ELSE "done", request |-> q, response |-> answer1,
               sends |-> IF answer1 = NoResponse THEN 0 ELSE 1]
    /\ UNCHANGED <<sessionToken, tcall, setup, rest>>
    /\ UNCHANGED <<tvars, gvars>>

\* what makeAuthenticatedBackendRequest ends with, seen from tools/call
HelperResults == {Response(200), Response(401), Response(500), Thrown("network"),
                  Thrown("Backend token refresh failed")}

\* tools/call from the settled makeAuthenticatedBackendRequest on: res is what
\* the helper ended with, refreshed tells whether it stored the accessToken
\* tok of a refresh on its way, p is the body of a 200
PostRootToolDone(res, refreshed, tok, p) ==
    /\ rpc.pc = "tool"
    /\ (refreshed \/ res = Thrown("Backend token refresh failed")) => session.refreshToken # 0
    /\ ~(refreshed /\ res = Thrown("Backend token refresh failed"))
    /\ session' = IF res = Thrown("Backend token refresh failed")
                     THEN [accessToken |-> 0, refreshToken |-> 0]
                  ELSE IF refreshed THEN StoreRefreshed(session, tok, 0)
                  ELSE session
    /\ rpc' = [rpc EXCEPT !.pc = "done",
                          !.sends = @ + 1,
                          !.response = IF res = Response(200) /\ p # Unparseable
                                          THEN JsonResult(rpcId(rpc.request.id), p)
                                          ELSE JsonError(rpcId(rpc.request.id), ToolExecutionCode)]
    /\ UNCHANGED <<calls, expired, sessionToken, tcall, setup, rest>>
    /\ UNCHANGED tvars

\* the exchange of a REST tool route: position and HTTP status answered
IdleRest == [pc |-> "idle", http |-> 0]

\* the status the catch block of a REST tool route answers for error.message
RestCatch(msg) ==
    IF msg = "MCP user not authenticated" THEN 401
    ELSE IF msg = "Backend token refresh failed" THEN 401
    ELSE 500

\* GET /mcp/tools/data-summary: ensureAuthenticated, then the route up to the
\* backend request of makeAuthenticatedBackendRequest
RestRoute ==
    /\ rest.pc # "helper"
    /\ rest' = IF HasAccessToken(session) THEN [pc |-> "helper", http |-> 0]
                                          ELSE [pc |-> "done", http |-> 401]
    /\ UNCHANGED <<sessionToken, tcall, setup, rpc>>
    /\ UNCHANGED <<tvars, gvars>>

\* the route from the settled makeAuthenticatedBackendRequest on: res is
\* what the helper ended with, refreshed tells whether it stored the
\* accessToken tok of a refresh on its way, p is the body of a 200. A
\* Response that is not ok is thrown as 'Error fetching from existing server'
RestRouteDone(res, refreshed, tok, p) ==
    /\ rest.pc = "helper"
    /\ (refreshed \/ res = Thrown("Backend token refresh failed")) => session.refreshToken # 0
    /\ ~(refreshed /\ res = Thrown("Backend token refresh failed"))
    /\ session' = IF res = Thrown("Backend token refresh failed")
                     THEN [accessToken |-> 0, refreshToken |-> 0]
                  ELSE IF refreshed THEN StoreRefreshed(session, tok, 0)
                  ELSE session
    /\ rest' = [pc |-> "done",
                http |-> IF res = Response(200) /\ p # Unparseable THEN 200
                         ELSE IF res.kind = "throw" THEN RestCatch(res.err)
                         ELSE RestCatch("Error fetching from existing server")]
    /\ UNCHANGED <<calls, expired, sessionToken, tcall, setup, rpc>>
    /\ UNCHANGED tvars

InitRpc == rpc = IdleRpc /\ rest = IdleRest

NextRpc ==
    \/ RestRoute
    \/ \E res \in HelperResults, refreshed \in BOOLEAN, tok \in Tokens, p \in Payloads \cup {Unparseable} :
          RestRouteDone(res, refreshed, tok, p)
    \/ \E ok \in BOOLEAN, tok \in Tokens, withRefresh \in BOOLEAN : Login(ok, tok, withRefresh)
    \/ Logout
    \/ \E q \in RpcRequests : PostRoot(q)
    \/ \E res \in HelperResults, refreshed \in BOOLEAN, tok \in Tokens, p \in Payloads \cup {Unparseable} :
          PostRootToolDone(res, refreshed, tok, p)

Init == InitTransport /\ InitGateway /\ InitTools /\ InitRpc

SpecGateway == Init /\ [][NextGateway]_vars

SpecBackend == Init /\ [][NextBackend]_vars

NextTransport ==
    \/ Start
    \/ Stop
    \/ OnMessage
    \/ \E m \in Messages \cup {NullMessage} : SendMessage(m)
    \/ \E idIn \in InIds, hasMethod \in BOOLEAN, params \in ParamsIn, h \in {"defer", "throw"} :
          SendRequestToMCP(idIn, hasMethod, params, h, NoError, Absent)
    \/ \E idIn \in InIds, params \in ParamsIn, h \in {"respond", "respondThenThrow"}, b \in Bodies :
          SendRequestToMCP(idIn, TRUE, params, h, b.error, b.result)
    \/ \E r \in Reqs : TimerFire(r)

SpecTransport == Init /\ [][NextTransport]_vars

SpecTools == Init /\ [][NextTools]_vars

SpecRpc == Init /\ [][NextRpc]_vars

\* ---------------------------------------------------------------------------
\* Properties of the transport
\* ---------------------------------------------------------------------------
Settled(p) == p.state \in {"resolved", "rejected"}

\* C1: a call's continuations are taken from pendingRequests and invoked at
\* most once; while its entry is registered nothing was invoked on it, so that
\* invocation is the one that takes effect; and a settled promise never
\* changes again, whatever is delivered, fires, fails or stops afterwards.
C1_SettledAtMostOnce ==
    /\ [](\A r \in Reqs :
            /\ lookedUp[r] <= 1
            /\ \A i \in PendIds : pendingRequests[i] = r =>
                    promise[r].state = "pending" /\ invoked[r] = 0)
    /\ [][\A r \in Reqs : Settled(promise[r]) => promise'[r] = promise[r]]_vars

\* C1 witness: a call was answered within the handler's invocation, the
\* handler then failed (two invocations, the first took effect), and its
\* timer fired later
C1_Witness ==
    \E r \in Reqs : /\ promise[r].state = "resolved"
                     /\ invoked[r] = 2
                     /\ lookedUp[r] = 1
                     /\ timer[r] = "fired"

\* the step is a sendRequestToMCP whose payload has no method
LacksMethodStep ==
    \E idIn \in InIds, params \in ParamsIn, h \in {"defer", "throw"} :
        SendRequestToMCP(idIn, FALSE, params, h, NoError, Absent)

\* C2: a sendRequestToMCP on a transport that is not started, has no handler,
\* or is given a payload without method returns a rejected promise, invokes no
\* handler, adds no entry and sets no timer.
C2_FailFast ==
    [][\A r \in Reqs :
          (nreq = r - 1 /\ nreq' = r /\ (~isStarted \/ ~serverMessageHandler \/ LacksMethodStep))
          => /\ promise'[r].state = "rejected"
             /\ promise'[r].value.kind \in {"notStarted", "noHandler", "noMethod"}
             /\ pendingRequests' = pendingRequests
             /\ timer' = timer
             /\ handed' = handed]_vars

\* C2 witness: after a registered call and a stop(), a second call was
\* rejected for the transport not being started
C2_Witness ==
    \E r, q \in Reqs : /\ r < q
                        /\ handed[r]
                        /\ promise[q].state = "rejected"
                        /\ promise[q].value.kind = "notStarted"
                        /\ ~handed[q] /\ timer[q] = "none"

\* what C3 says of every call but the message of a rejection
C3_Body(r, m) ==
    IF m.error.present
       THEN /\ promise[r].state = "rejected"
            /\ promise[r].value.kind = "rpcError"
            /\ promise[r].value.code = m.error.code
            /\ promise[r].value.data = m.error.data
       ELSE /\ promise[r].state = "resolved"
            /\ IF m.result # Absent
                  THEN promise[r].value.kind = "result" /\ promise[r].value.result = m.result
                  ELSE promise[r].value.kind = "wholeMessage" /\ promise[r].value.id = m.id

\* C3 as stated: a message that matches a pending request rejects the promise
\* with the code, message and data of message.error, or resolves it with
\* message.result, or with the whole message when there is no result.
C3_Original ==
    \A r \in Reqs : ~answer[r].isNull =>
        /\ C3_Body(r, answer[r])
        /\ (answer[r].error.present /\ answer[r].error.hasMessage)
              => promise[r].value.message = answer[r].error.message

\* C3 amended: as C3, but the rejection carries the error's message only when
\* that message is a non-empty string, and "MCP Server Error" otherwise.
C3_SettledByMessage ==
    \A r \in Reqs : ~answer[r].isNull =>
        /\ C3_Body(r, answer[r])
        /\ answer[r].error.present
              => promise[r].value.message =
                    IF answer[r].error.hasMessage /\ answer[r].error.message # ""
                       THEN answer[r].error.message ELSE "MCP Server Error"

\* C3 witness: one call rejected by an error whose message is the empty
\* string, another resolved with the whole message
C3_Witness ==
    \E r, q \in Reqs :
        /\ ~answer[r].isNull /\ answer[r].error.present
        /\ answer[r].error.hasMessage /\ answer[r].error.message = ""
        /\ promise[r].state = "rejected"
        /\ ~answer[q].isNull /\ ~answer[q].error.present /\ answer[q].result = Absent
        /\ promise[q].state = "resolved"

\* C4 as stated, in the form a finite run refutes: once the timer of a
\* registered call has fired and no sendMessage carried its id, the call is
\* rejected with the timeout error of its id (a call the handler failed on
\* was rejected with that failure before) and its entry is gone.
C4_TimeoutSettles ==
    \A r \in Reqs :
        (handed[r] /\ timer[r] = "fired" /\ ~delivered[r] /\ promise[r].value.kind # "handlerError")
        => /\ promise[r].state = "rejected"
           /\ promise[r].value = TimeoutError(reqId[r])
           /\ pendingRequests[reqId[r]] # r

\* ---------------------------------------------------------------------------
\* Properties of the gateway
\* ---------------------------------------------------------------------------

\* C5: when the first attempt got 401, a refresh token was stored and the
\* refresh succeeded, the session takes the refreshed accessToken (and the
\* refreshToken when the body has one) in the step that sends the retry, the
\* retry carries that token, it is the call's second and last request, and
\* the response to it is the call's result.
C5_RefreshThenRetry ==
    /\ [][\A c \in Calls :
            (calls[c].pc = "parseRefresh" /\ calls[c].refresh = "ok" /\ calls'[c] # calls[c])
            => /\ calls[c].first = 401
               /\ session'.accessToken = calls[c].newTok
               /\ session'.refreshToken = IF calls[c].newRefresh # 0 THEN calls[c].newRefresh
                                                                      ELSE session.refreshToken
               /\ calls'[c].pc = "waitRetry"
               /\ calls'[c].tokRetry = calls[c].newTok
               /\ calls'[c].requests = 2]_vars
    /\ [][\A c \in Calls : \A status \in Statuses :
            RetryResponse(c, status)
            => /\ calls'[c].pc = "done"
               /\ calls'[c].requests = 2
               /\ calls'[c].result = Response(status)]_vars

\* C5 witness: a call whose first attempt got 401 and whose refresh succeeded
\* ended with the 200 of its retry, the session holding a refreshed token
C5_Witness ==
    \E c \in Calls : /\ calls[c].pc = "done"
                      /\ calls[c].first = 401
                      /\ calls[c].refresh = "ok"
                      /\ calls[c].requests = 2
                      /\ calls[c].result = Response(200)
                      /\ session.accessToken # 0

\* C6: a call sends at most two requests to its endpoint and at most one
\* refresh; a second request is sent only after a 401 on the first and a
\* successful refresh; the static-key gateway sends one request and no refresh.
C6_AtMostOneRetry ==
    \A c \in Calls :
        /\ calls[c].requests <= 2
        /\ calls[c].refreshes <= 1
        /\ calls[c].requests = 2 => (calls[c].first = 401 /\ calls[c].refresh = "ok")
        /\ calls[c].refreshes = 1 => calls[c].first = 401
        /\ calls[c].kind = "static" => (calls[c].requests <= 1 /\ calls[c].refreshes = 0)

\* C6 witness: a retried request was itself answered 401 and the call ended
\* there, while another call ended on a 500 with one request
C6_Witness ==
    \E c, d \in Calls : /\ calls[c].pc = "done"
                         /\ calls[c].requests = 2
                         /\ calls[c].refreshes = 1
                         /\ calls[c].result = Response(401)
                         /\ calls[d].pc = "done"
                         /\ calls[d].requests = 1
                         /\ calls[d].result = Response(500)

\* C7 as stated: a call that ends after its refresh failed (non-2xx answer,
\* network failure or unparseable body) leaves the session with neither token,
\* fails with the auth-expired error and has sent one request.
C7_RefreshFailureClears ==
    [][\A c \in Calls :
          (calls[c].pc # "done" /\ calls'[c].pc = "done" /\ calls'[c].refresh \in RefreshFailures)
          => /\ session'.accessToken = 0
             /\ session'.refreshToken = 0
             /\ calls'[c].result = Thrown("Backend token refresh failed")
             /\ calls'[c].requests = 1]_vars

\* the answers that tell the client to authenticate
AuthAnswers == {HttpAnswer(401), RpcErrorAnswer(AuthRequiredCode), Thrown("MCP user not authenticated")}

\* C8 as stated: once a call has failed on a 401 and a failed refresh, and
\* until a login succeeds, every call that starts ends at once with an
\* auth-required answer and sends no backend request.
C8_NoCallAfterExpiry ==
    [][\A c \in Calls :
          (expired /\ calls[c].pc = "idle" /\ calls'[c].kind = "session")
          => /\ calls'[c].pc = "done"
             /\ calls'[c].requests = 0
             /\ calls'[c].result \in AuthAnswers]_vars

\* C9 as stated: at most one refresh request of the session is in flight.
C9_SingleRefreshInFlight ==
    Cardinality({c \in Calls : calls[c].pc = "waitRefresh"}) <= 1

\* C10: a call of the session gateway that starts while the session holds no
\* accessToken ends at once with the answer of its gate (401 for a REST
\* route, -32000 for tools/call, the throw of makeAuthenticatedBackendRequest
\* otherwise) and sends nothing; and whenever such a call sends a request or
\* a refresh, the session holds an accessToken at that moment.
C10_NoRequestWithoutToken ==
    [][\A c \in Calls :
          /\ \A entry \in Entries :
                (CallStart(c, entry) /\ session.accessToken = 0)
                => /\ calls'[c].pc = "done"
                   /\ calls'[c].requests = 0
                   /\ calls'[c].refreshes = 0
                   /\ calls'[c].result = CASE entry = "rest" -> HttpAnswer(401)
                                            [] entry = "rpc" -> RpcErrorAnswer(AuthRequiredCode)
                                            [] OTHER -> Thrown("MCP user not authenticated")
          /\ (calls'[c].kind = "session"
                /\ (calls'[c].requests > calls[c].requests \/ calls'[c].refreshes > calls[c].refreshes))
             => session'.accessToken # 0]_vars

\* C10 witness: a refresh failure emptied the session and a later tools/call
\* was answered -32000 without a request
C10_Witness ==
    \E c, d \in Calls : /\ calls[c].result = Thrown("Backend token refresh failed")
                         /\ calls[d].result = RpcErrorAnswer(AuthRequiredCode)
                         /\ calls[d].requests = 0
                         /\ session.accessToken = 0

\* ---------------------------------------------------------------------------
\* Properties of the tool dispatch
\* ---------------------------------------------------------------------------
\* the pieces of a text
Pieces(text) == {text[i] : i \in 1..Len(text)}

\* the required arguments a call leaves out
MissingFields(c) == Required(c.name) \ c.args.given

\* C11 as stated: a call of a catalog tool whose arguments object leaves out
\* a required argument ends, whatever the credentials, with an isError result
\* whose message names every missing field, and sends no backend request.
C11_MissingArgument ==
    (tcall.pc # "idle" /\ tcall.name \in Catalog(tcall.variant) /\ tcall.args.defined
        /\ MissingFields(tcall) # {})
    => /\ tcall.pc = "done"
       /\ tcall.fetches = 0
       /\ tcall.result.kind = "toolResult"
       /\ tcall.result.isError
       /\ MissingFields(tcall) \subseteq Pieces(tcall.result.text)

\* the call went through: a 200 with a parseable body, or testTool
Succeeded(c) ==
    \/ c.fetches = 1 /\ c.status = 200 /\ c.payload \in Payloads
    \/ c.variant = "core" /\ c.name = "testTool" /\ c.args.defined

C13_Original ==
    (tcall.pc = "done" /\ tcall.name \notin Catalog(tcall.variant))
    => /\ tcall.result.kind = "toolResult"
       /\ tcall.result.isError
       /\ tcall.result.text = <<"Unknown tool: ", tcall.name>>
       /\ tcall.fetches = 0

\* C13 amended: a call whose name is not in the catalog returns an isError
\* result whose text is "Error: Unknown tool: <name>", and sends no request.
C13_UnknownTool ==
    (tcall.pc # "idle" /\ tcall.name \notin Catalog(tcall.variant))
    => /\ tcall.pc = "done"
       /\ tcall.result.kind = "toolResult"
       /\ tcall.result.isError
       /\ tcall.result.text = <<"Error: ", "Unknown tool: ", tcall.name>>
       /\ tcall.fetches = 0

\* C13 witness: the stdio server was asked for a tool only the other catalog
\* has, while logged in
C13_Witness ==
    /\ tcall.pc = "done"
    /\ tcall.variant = "stdio"
    /\ tcall.name = "getCvFields"
    /\ sessionToken # 0
    /\ tcall.result.isError
    /\ tcall.fetches = 0

\* C14 as stated: a call of a catalog tool with its required arguments,
\* answered 2xx by the backend, returns a result without isError whose text
\* is the pretty-printed JSON of the backend's body.
C14_PrettyPayload ==
    (tcall.pc = "done" /\ tcall.name \in Catalog(tcall.variant) /\ tcall.args.defined
        /\ MissingFields(tcall) = {} /\ tcall.status = 200 /\ tcall.payload \in Payloads)
    => /\ tcall.result.kind = "toolResult"
       /\ ~tcall.result.isError
       /\ tcall.result.text = Pretty(<<tcall.payload>>)

\* ---------------------------------------------------------------------------
\* Properties of POST /
\* ---------------------------------------------------------------------------
\* the methods POST / implements
ImplementedMethods == {"initialize", "tools/list", "notifications/initialized", "tools/call"}

\* C15: a well-formed request whose method is not implemented is answered
\* with HTTP 200 and a JSON-RPC error of code -32601 whose id is the
\* request's id, null when the request has no id or a null id.
C15_MethodNotFound ==
    (rpc.pc # "idle" /\ rpc.request.wellFormed /\ rpc.request.method \notin ImplementedMethods)
    => /\ rpc.pc = "done"
       /\ rpc.response.sent = "json"
       /\ rpc.response.kind = "error"
       /\ rpc.response.code = -32601
       /\ rpc.response.id = IF rpc.request.id \in {NoId, NullId} THEN NullId ELSE rpc.request.id

\* C15 witness: an unimplemented method without id was answered with id null
C15_Witness ==
    /\ rpc.pc = "done"
    /\ rpc.request.wellFormed
    /\ rpc.request.method = "resources/list"
    /\ rpc.request.id = NoId
    /\ rpc.response.code = -32601
    /\ rpc.response.id = NullId

\* C16 as stated: a well-formed request without id is never answered with a
\* JSON-RPC response object, whatever its method, and
\* notifications/initialized without id is answered 204 without body.
C16_NoResponseWithoutId ==
    (rpc.pc # "idle" /\ rpc.request.wellFormed /\ rpc.request.id = NoId)
    => /\ rpc.response.sent # "json"
       /\ rpc.request.method = "notifications/initialized" => rpc.response = NoContent

\* ---------------------------------------------------------------------------
\* Properties of the transport (continued)
\* ---------------------------------------------------------------------------
\* call r is the last one registered under its id, and a sendMessage found
\* its entry and settled it
AnsweredLast(r) ==
    /\ handed[r]
    /\ ~answer[r].isNull
    /\ \A q \in Reqs : q > r => reqId[q] # reqId[r]

\* C17: once a sendMessage has settled the request registered under an id
\* and no request was registered under that id since, a further sendMessage
\* with that id settles nothing, leaves pendingRequests as it is, and ends
\* in the branch that logs the unknown id.
C17_SecondDeliveryNoOp ==
    [][\A r \in Reqs : AnsweredLast(r) =>
          \A m \in Messages : (m.id = reqId[r] /\ SendMessage(m)) =>
              /\ promise' = promise
              /\ invoked' = invoked
              /\ pendingRequests' = pendingRequests
              /\ lastSend'.unknownId = m.id]_vars

\* C17 witness: a call was settled by a sendMessage, and the last sendMessage
\* carried its id again and was logged as unknown
C17_Witness ==
    \E r \in Reqs : /\ AnsweredLast(r)
                     /\ Settled(promise[r])
                     /\ invoked[r] = 1
                     /\ pendingRequests[reqId[r]] = 0
                     /\ lastSend.unknownId = reqId[r]

\* C18 as stated: pendingRequests holds as many entries as there are
\* registered requests whose promise is not settled.
C18_OneEntryPerRequest ==
    Cardinality({i \in PendIds : pendingRequests[i] # 0})
       = Cardinality({r \in Reqs : promise[r].state = "pending"})

\* C19 as stated: stop() settles no promise, and a request registered before
\* a stop() and still unsettled when its timer fires on the stopped transport
\* is rejected by that timer with the timeout error of its id.
C19_StopThenTimeout ==
    [][/\ Stop => promise' = promise
       /\ \A r \in Reqs :
             (TimerFire(r) /\ ~isStarted /\ handed[r] /\ promise[r].state = "pending")
             => /\ promise'[r].state = "rejected"
                /\ promise'[r].value = TimeoutError(reqId[r])]_vars

\* C20: a sendMessage with a message that has no id and has a method settles
\* no promise, leaves pendingRequests as it is, and emits one 'notification'
\* event, which carries the message.
C20_Notification ==
    [][\A m \in Messages : (m.id = Absent /\ m.hasMethod /\ SendMessage(m)) =>
          /\ promise' = promise
          /\ invoked' = invoked
          /\ pendingRequests' = pendingRequests
          /\ lastSend'.emitted = <<m>>]_vars

\* C20 witness: the last sendMessage emitted a notification without id while
\* a request was pending
C20_Witness ==
    /\ Len(lastSend.emitted) = 1
    /\ lastSend.emitted[1].id = Absent
    /\ lastSend.emitted[1].hasMethod
    /\ \E r \in Reqs : promise[r].state = "pending" /\ pendingRequests[reqId[r]] = r

\* message m has an id that matches no pending request, or is null, or has
\* neither id nor method
Unmatched(m) ==
    \/ m.isNull
    \/ m.id # Absent /\ (m.id \notin PendIds \/ pendingRequests[m.id] = 0)
    \/ m.id = Absent /\ ~m.hasMethod

\* C21 as stated: a sendMessage with a message whose id is present and
\* matches no pending request, with a null message, or with a message that
\* has neither id nor method settles no promise, leaves pendingRequests as it
\* is and emits no event.
C21_UnmatchedDropped ==
    [][\A m \in Messages \cup {NullMessage} : (Unmatched(m) /\ SendMessage(m)) =>
          /\ promise' = promise
          /\ invoked' = invoked
          /\ pendingRequests' = pendingRequests
          /\ lastSend'.emitted = <<>>]_vars

\* the step is a sendRequestToMCP that passes the three early returns, with
\* payload.id idIn
Registers(idIn) ==
    /\ nreq' = nreq + 1
    /\ isStarted
    /\ serverMessageHandler
    /\ \E params \in ParamsIn, h \in HandlerBehaviours, b \in Bodies :
          SendRequestToMCP(idIn, TRUE, params, h, b.error, b.result)

\* C22 as stated: a call whose payload supplies an id, 0 included, hands the
\* handler a message with that id and is registered under it; a call whose
\* payload has no id gets a generated id, which no pending request has.
C22_SuppliedIdKept ==
    [][\A idIn \in InIds : Registers(idIn) =>
          LET r == nreq' IN
          /\ lastRequest'.id = reqId'[r]
          /\ idIn # Absent => reqId'[r] = idIn
          /\ idIn = Absent => (reqId'[r] \notin SuppliedIds /\ pendingRequests[reqId'[r]] = 0)]_vars

\* C23: on a started transport with a handler, a sendRequestToMCP whose
\* payload has a method, no id and no params hands the handler exactly
\* {jsonrpc: "2.0", id: <generated>, method, params: {}} and registers the
\* call under that id; and a sendMessage that carries the id of a call still
\* registered, a result and no error resolves that call's promise with the
\* result.
C23_RoundTrip ==
    /\ [][(/\ nreq' = nreq + 1
           /\ isStarted /\ serverMessageHandler
           /\ \E h \in HandlerBehaviours, b \in Bodies :
                 SendRequestToMCP(Absent, TRUE, "undefined", h, b.error, b.result))
          => /\ lastRequest' = [jsonrpc |-> "2.0", id |-> GenId(nreq'), method |-> Method,
                                params |-> EmptyObject]
             /\ reqId'[nreq'] = lastRequest'.id]_vars
    /\ [][\A r \in Reqs : (handed[r] /\ pendingRequests[reqId[r]] = r) =>
             \A m \in Messages :
                (m.id = reqId[r] /\ ~m.error.present /\ m.result # Absent /\ SendMessage(m))
                => /\ promise'[r].state = "resolved"
                   /\ promise'[r].value.kind = "result"
                   /\ promise'[r].value.result = m.result]_vars

\* C23 witness: the last call had no id and no params, the handler got the
\* request with the generated id and {}, and the promise is resolved with the
\* result of the message that carried that id
C23_Witness ==
    \E r \in Reqs : /\ nreq = r
                     /\ lastRequest = [jsonrpc |-> "2.0", id |-> GenId(r), method |-> Method,
                                       params |-> EmptyObject]
                     /\ reqId[r] = GenId(r)
                     /\ answer[r].id = GenId(r)
                     /\ answer[r].result = 55
                     /\ lookedUp[r] = 1
                     /\ timer[r] = "armed"
                     /\ promise[r].state = "resolved"
                     /\ promise[r].value.result = 55

\* ---------------------------------------------------------------------------
\* Properties of the gateway (continued)
\* ---------------------------------------------------------------------------
\* call c ended in this step with one request sent, no refresh, and an error
\* thrown to its caller
FailedAtOnce(c) ==
    /\ calls'[c].pc = "done"
    /\ calls'[c].requests = 1
    /\ calls'[c].refreshes = 0
    /\ calls'[c].result.kind = "throw"

\* C24 as stated: a 401 answered to a call of the session gateway while no
\* refresh token is stored, or to a call of the static-key gateway, ends the
\* call with one request sent, no refresh, and an error thrown instead of a
\* Response handed back.
C24_NoRefreshTokenFails ==
    [][\A c \in Calls :
          /\ (session.refreshToken = 0 /\ FirstResponse(c, 401)) => FailedAtOnce(c)
          /\ StaticResponse(c, 401) => FailedAtOnce(c)]_vars

\* what a call hands its caller holds the status of the backend's answer (a
\* Response holds the body with it, an Error holds only its message)
CarriesStatus(res, status) == res.kind \in {"response", "throw"} /\ res.status = status

\* C25 as stated: a 403 or 500 answered to a call of either gateway ends the
\* call with one request sent, no refresh, the session as it was, and a
\* failure that carries the status (and body) of the answer.
C25_BackendErrorSurfaced ==
    [][\A c \in Calls : \A status \in {403, 500} :
          (FirstResponse(c, status) \/ StaticResponse(c, status))
          => /\ calls'[c].pc = "done"
             /\ calls'[c].requests = 1
             /\ calls'[c].refreshes = 0
             /\ session' = session
             /\ CarriesStatus(calls'[c].result, status)]_vars

\* the step is a login of the stdio server that got a 200 with a JSON body
StdioLoginSucceeds ==
    /\ tcall.pc = "fetch"
    /\ tcall.variant = "stdio"
    /\ tcall.name = "loginToMcp"
    /\ tcall'.status = 200
    /\ tcall'.payload \in Payloads

\* the step stores the tokens of a successful refresh
RefreshStores ==
    \E c \in Calls : calls[c].pc = "parseRefresh" /\ calls[c].refresh = "ok" /\ calls'[c].pc = "waitRetry"

\* the step ends a call on a failed refresh
RefreshFails ==
    \E c \in Calls : /\ calls[c].pc = "parseRefresh"
                      /\ calls[c].refresh \in RefreshFailures
                      /\ calls'[c].pc = "done"

\* C26 as stated: the session's tokens and the stdio server's sessionToken
\* change only in a successful login or a successful refresh, or are cleared
\* by a logout or a failed refresh; every other step (a failed login, a
\* validation failure, a backend error, a 401 without refresh) leaves them
\* as they are.
C26_CredentialFrame ==
    [][/\ sessionToken' # sessionToken => StdioLoginSucceeds
       /\ session' # session =>
             \/ \E tok \in Tokens, withRefresh \in BOOLEAN : Login(TRUE, tok, withRefresh)
             \/ RefreshStores
             \/ session' = [accessToken |-> 0, refreshToken |-> 0] /\ (Logout \/ RefreshFails)]_vars

\* C27 as stated: every request a gateway sends to an endpoint other than
\* login carries an Authorization header with the credential stored when it
\* is sent (the session's accessToken, or the API key), and so does every
\* refresh request.
C27_AlwaysAuthorized ==
    [][\A c \in Calls :
          /\ (calls'[c].requests > calls[c].requests /\ ~calls'[c].login)
             => LET tok == IF calls'[c].pc = "waitRetry" THEN calls'[c].tokRetry
                                                          ELSE calls'[c].tokFirst
                IN /\ tok # 0
                   /\ tok = IF calls'[c].kind = "static" THEN ApiKey ELSE session'.accessToken
          /\ calls'[c].refreshes > calls[c].refreshes => "Authorization" \in RefreshHeaders]_vars

\* ---------------------------------------------------------------------------
\* Properties of POST / (continued)
\* ---------------------------------------------------------------------------
\* C28: a request to POST / that has been handled got one HTTP response, and
\* none before its tool finished; a JSON-RPC response object has jsonrpc
\* "2.0", the id of the request (null when the request has none), and either
\* a result or an error, never both and never neither.
C28_OneWellFormedResponse ==
    /\ rpc.pc = "done" => (rpc.sends = 1 /\ rpc.response.sent \in {"json", "empty"})
    /\ rpc.pc = "tool" => (rpc.sends = 0 /\ rpc.response.sent = "none")
    /\ rpc.response.sent = "json"
       => /\ rpc.response.http = 200
          /\ rpc.response.jsonrpc = "2.0"
          /\ rpc.response.id = IF rpc.request.id = NoId THEN NullId ELSE rpc.request.id
          /\ (rpc.response.outputs # "none") # (rpc.response.code # 0)

\* C28 witness: a tools/call without id went through its tool and was
\* answered once, with a result and the id null
C28_Witness ==
    /\ rpc.pc = "done"
    /\ rpc.sends = 1
    /\ rpc.request.method = "tools/call"
    /\ rpc.request.id = NoId
    /\ rpc.response.id = NullId
    /\ rpc.response.outputs \in Payloads
    /\ rpc.response.code = 0

\* the endpoint answers in this step with a JSON-RPC error of that code
AnswersError(code) ==
    /\ rpc'.pc = "done"
    /\ rpc'.response.sent = "json"
    /\ rpc'.response.outputs = "none"
    /\ rpc'.response.code = code

\* C29: a request of invalid structure is answered -32600; otherwise a
\* tools/call without a string tool_id -32602; otherwise a tools/call while
\* the session has no accessToken -32000; otherwise a tools/call of an
\* unknown tool -32601; otherwise the tool is executed and its failure is
\* answered -32001; a notifications/initialized with an id is answered -32600.
C29_CodePrecedence ==
    /\ [][\A q \in RpcRequests : (q = rpc'.request /\ PostRoot(q)) =>
             /\ ~q.wellFormed => AnswersError(-32600)
             /\ (q.wellFormed /\ q.method = "tools/call") =>
                   IF q.toolId = NoId THEN AnswersError(-32602)
                   ELSE IF session.accessToken = 0 THEN AnswersError(-32000)
                   ELSE IF q.toolId \notin KnownToolIds THEN AnswersError(-32601)
                   ELSE rpc'.pc = "tool" /\ rpc'.sends = 0
             /\ (q.wellFormed /\ q.method = "notifications/initialized" /\ q.id \notin {NoId, NullId})
                   => AnswersError(-32600)]_vars
    /\ [][(rpc.pc = "tool" /\ rpc' # rpc) =>
             \A res \in HelperResults, refreshed \in BOOLEAN, tok \in Tokens, p \in Payloads \cup {Unparseable} :
                (PostRootToolDone(res, refreshed, tok, p) /\ ~(res = Response(200) /\ p # Unparseable))
                => AnswersError(-32001)]_vars

\* C29 witness: a tools/call of an unknown tool with an id was answered
\* -32000, the session holding no accessToken
C29_Witness ==
    /\ rpc.pc = "done"
    /\ rpc.request.wellFormed
    /\ rpc.request.method = "tools/call"
    /\ rpc.request.toolId = "nope"
    /\ rpc.request.id = "abc"
    /\ session.accessToken = 0
    /\ rpc.response.code = -32000

\* C30 as stated: when makeAuthenticatedBackendRequest fails with 'Backend
\* token refresh failed', a REST tool route answers HTTP 401 and tools/call
\* answers the JSON-RPC error -32000.
C30_RefreshFailureIs401 ==
    [][\A refreshed \in BOOLEAN, tok \in Tokens, p \in Payloads \cup {Unparseable} :
          /\ RestRouteDone(Thrown("Backend token refresh failed"), refreshed, tok, p)
                => rest'.http = 401
          /\ PostRootToolDone(Thrown("Backend token refresh failed"), refreshed, tok, p)
                => AnswersError(AuthRequiredCode)]_vars

\* what start() and stop() are said to leave alone when repeated
TransportFace == <<isStarted, serverMessageHandler, pendingRequests, promise, invoked>>

\* C34: start() on a started transport and stop() on a stopped transport
\* change neither isStarted, the registered handler nor pendingRequests, and
\* settle no promise: no such call has a successor that differs.
C34_StartStopIdempotent ==
    /\ isStarted => ~ENABLED (Start /\ TransportFace' # TransportFace)
    /\ ~isStarted => ~ENABLED (Stop /\ TransportFace' # TransportFace)

\* C34 witness: a started transport holding an entry, whose handler is
\* registered and whose caller still waits: a second start() meets all of it
C34_Witness ==
    /\ isStarted
    /\ serverMessageHandler
    /\ \E r \in Reqs : /\ handed[r]
                       /\ pendingRequests[reqId[r]] = r
                       /\ promise[r].state = "pending"

\* C35: the entry of a request is in pendingRequests when the handler is
\* invoked, and the handler runs within the send call: a handler that calls
\* sendMessage with the request's id during its own invocation finds the entry
\* and settles the caller's promise with that message, within the same call.
C35_RegisteredBeforeHandler ==
    [][\A idIn \in InIds, b \in Bodies :
          LET r == nreq + 1
              id == MessageId(idIn, r)
          IN (/\ nreq' = r
              /\ handed'[r]
              /\ reqId'[r] = id
              /\ \E params \in ParamsIn, h \in {"respond", "respondThenThrow"} :
                    SendRequestToMCP(idIn, TRUE, params, h, b.error, b.result))
             => /\ lookedUp'[r] = 1
                /\ answer'[r] = [isNull |-> FALSE, id |-> id, error |-> b.error,
                                 result |-> b.result, hasMethod |-> FALSE]
                /\ pendingRequests'[id] = 0
                /\ promise'[r] = IF b.error.present
                                    THEN [state |-> "rejected", value |-> RpcError(b.error)]
                                    ELSE [state |-> "resolved", value |-> Resolution(answer'[r])]]_vars

\* C35 witness: the handler answered within its invocation and threw
\* afterwards; the answer had found the entry and rejected the promise with
\* its error, and the timer of the call has not fired
C35_Witness ==
    \E r \in Reqs :
       /\ handed[r]
       /\ timer[r] = "armed"
       /\ lookedUp[r] = 1
       /\ invoked[r] = 2
       /\ answer[r].error.present
       /\ promise[r] = [state |-> "rejected", value |-> RpcError(answer[r].error)]

\* C36 as stated: a message the handler produces for the request of a caller
\* still waiting (it carries that request's id) settles no other caller's
\* promise, also when two callers in flight supplied the same id.
C36_NoCrossedResponse ==
    [][\A q \in Reqs :
          (handed[q] /\ promise[q].state = "pending" /\ promise' # promise) =>
             \A m \in Messages :
                (m.id = reqId[q] /\ SendMessage(m)) =>
                   \A r \in Reqs \ {q} : promise'[r] = promise[r]]_vars

\* C37 as stated: the timer of a request settles and removes nothing of
\* another request, also when a later request reuses the id of the earlier.
C37_OwnTimerOnly ==
    [][\A r \in Reqs :
          (timer[r] = "armed" /\ timer'[r] = "fired" /\ TimerFire(r)) =>
             \A q \in Reqs \ {r} :
                /\ promise'[q] = promise[q]
                /\ (handed[q] /\ pendingRequests[reqId[q]] = q) => pendingRequests'[reqId[q]] = q]_vars

\* the handler threw when it was handed request r, without answering it
Threw(r) == handed[r] /\ lookedUp[r] = 0 /\ promise[r] = [state |-> "rejected", value |-> HandlerError]

\* C38 as stated: when the handler throws on being handed the request, the
\* promise is rejected with the error thrown and the entry of its id removed
\* within the call, and the timer of that request, firing later, settles
\* nothing and removes nothing.
C38_HandlerThrowCleansUp ==
    /\ [][\A idIn \in InIds :
             LET r == nreq + 1 IN
             (/\ nreq' = r
              /\ handed'[r]
              /\ \E params \in ParamsIn : SendRequestToMCP(idIn, TRUE, params, "throw", NoError, Absent))
             => /\ promise'[r] = [state |-> "rejected", value |-> HandlerError]
                /\ pendingRequests'[MessageId(idIn, r)] = 0]_vars
    /\ [][\A r \in Reqs :
             (Threw(r) /\ timer[r] = "armed" /\ TimerFire(r))
             => /\ promise' = promise
                /\ pendingRequests' = pendingRequests]_vars

\* C39 as stated: while a call waits for the retry it sent with the
\* accessToken its own successful refresh stored, and the session still holds
\* that token, the failure of another call's refresh does not remove it.
C39_FailureKeepsRefreshedToken ==
    [][\A c \in Calls :
          (calls[c].pc = "parseRefresh" /\ calls[c].refresh # "ok" /\ calls'[c].pc = "done") =>
             \A d \in Calls \ {c} :
                (/\ calls[d].pc = "waitRetry"
                 /\ calls[d].refresh = "ok"
                 /\ session.accessToken = calls[d].tokRetry)
                => session'.accessToken = session.accessToken]_vars

\* C31 as stated: no CallTool invocation writes the value of a credential
\* (password, access token, refresh token, API key) to the log.
C31_NoCredentialLogged ==
    tcall.logged = {}

\* the invocation ended with the error of getApiKey
KeyMissing(t) ==
    /\ t.pc = "done"
    /\ t.variant = "core"
    /\ t.fetches = 0
    /\ t.result = ToolError(<<FailPrefix(t.name), "CV_API_KEY environment variable not set">>)

\* C32: in mcp_core.js, the self-check that finds no API key ends as failed
\* and leaves the server running; a call of a backend-using tool made while
\* the key is absent returns isError:true without a request; a call made
\* with the key present after such a failure sends its request, and a 200
\* with a JSON body makes it succeed.
C32_KeyAbsent ==
    /\ [][(setup = "none" /\ ValidateSetup(FALSE)) => (setup' = "failed" /\ ServerRunning')]_vars
    /\ [][\A name \in CoreTools \ {"testTool"} :
             (tcall' # tcall /\ tcall'.name = name /\ \E args \in ArgsOf(name) : CoreCallTool(name, args, FALSE))
             => /\ tcall'.pc = "done"
                /\ tcall'.fetches = 0
                /\ tcall'.result.kind = "toolResult"
                /\ tcall'.result.isError]_vars
    /\ [][\A name \in CoreTools \ {"testTool"} :
             (KeyMissing(tcall) /\ tcall' # tcall /\ tcall'.name = name) =>
                \A args \in ArgsOf(name) :
                   (CoreEarlyThrow(name, args) = <<>> /\ CoreCallTool(name, args, TRUE))
                   => (tcall'.pc = "fetch" /\ tcall'.fetches = 1)]_vars
    /\ [][\A p \in Payloads :
             (tcall.pc = "fetch" /\ tcall.variant = "core" /\ CoreFetchDone(200, p))
             => (tcall'.result.kind = "toolResult" /\ ~tcall'.result.isError)]_vars

\* C32 witness: the self-check has failed, and a call of a backend-using tool
\* made afterwards ended with the error of the missing key, no request sent
C32_Witness ==
    /\ setup = "failed"
    /\ KeyMissing(tcall)
    /\ tcall.name = "getCvOverview"

\* C33 as stated: a call of a tool of the catalog that gives a required
\* argument a value of the wrong type ends with isError:true and no request.
C33_WrongTypeRejected ==
    (/\ tcall.pc # "idle"
     /\ tcall.name \in Catalog(tcall.variant)
     /\ tcall.args.mistyped \cap Required(tcall.name) # {})
    => /\ tcall.pc = "done"
       /\ tcall.fetches = 0
       /\ tcall.result.kind = "toolResult"
       /\ tcall.result.isError

====
